---------------------------- MODULE Spec2Model ----------------------------
(***************************************************************************)
(* A model of ossium (fraserlove/ossium): the Camera, the Engine with its  *)
(* asynchronous resource loads, views and frame loop, the ray-marching     *)
(* fragment shaders (MIP and SVR), and the Controller of a view.           *)
(*                                                                         *)
(* Six specifications share the module:                                    *)
(*   SpecCamera  one Camera driven by its setters                          *)
(*   Spec        the Engine: loads, views, frames, with the GPU device     *)
(*               acquired and no call into it throwing                     *)
(*   SpecShader  one invocation of frag_main along one ray                 *)
(*   SpecView    one view driven by DOM events, resizes and resets         *)
(*   SpecPage    the Engine from its construction on: the device request,  *)
(*               views whose construction or start() throws, the frame     *)
(*               callback (SpecPageFair: the same with a fair frame loop)  *)
(*   SpecData    the conversions of voxel and uniform data                 *)
(* Each keeps the variables of the others fixed.                           *)
(***************************************************************************)
EXTENDS Integers, Sequences, FiniteSets, TLC

VARIABLES
    cam,                 \* the Camera object of one view (src/src/camera.ts, latest)
    heap,                \* the Volume and TransferFunction objects that are referenced
    volume,              \* Engine._volume: a reference into heap
    transferFunction,    \* Engine._transferFunction: a reference into heap
    volumeIDs,           \* Engine._volumeIDs
    transferFunctionIDs, \* Engine._transferFunctionIDs
    loads,               \* the loads suspended at an await
    nextObj,             \* the number of objects constructed so far
    renderers,           \* Engine._renderers: id -> view
    frames,              \* what the last frame of each view drew with
    lastLoad,            \* the outcome of the load that completed last
    dom,                 \* Engine._containers, _windows, _contexts: their keys
    destroyed,           \* the id destroyRenderer was last called with
    frag,                \* the locals of one invocation of frag_main
    view,                \* one view: its Controller, its canvas, the DOM events
    page,                \* Engine._device, the frame callback, the Map order
    calc                 \* the conversion applied last, with its input and output

engine == <<heap, volume, transferFunction, volumeIDs, transferFunctionIDs,
            loads, nextObj, renderers, frames, lastLoad, dom, destroyed>>
notCamera == <<engine, frag, view, page, calc>>
notEngine == <<cam, frag, view, page, calc>>
notShader == <<cam, engine, view, page, calc>>
notView == <<engine, frag, page, calc>>
notPage == <<cam, heap, volume, transferFunction, volumeIDs,
             transferFunctionIDs, loads, nextObj, lastLoad, frag, view, calc>>
notData == <<cam, engine, frag, view, page>>
vars == <<cam, engine, frag, view, page, calc>>

(***************************************************************************)
(* The Camera (src/src/camera.ts, latest).  Its vectors are gl-matrix      *)
(* vec3, that is Float32Array: a store rounds the double it is given to    *)
(* the nearest Float32.  Angles are counted in quarter turns, positions in *)
(* whole units.  A zoom component is a power of two or zero, held as       *)
(* [sign, exp] for sign * 2^-exp, so that the rounding of a store is exact.*)
(***************************************************************************)
\* positions stay within -MaxPos..MaxPos
MaxPos == 1
\* halving and doubling stay within 2^-MaxZoomExp..2^MaxZoomExp
MaxZoomExp == 2

\* the smallest positive Float32 is 2^-149
F32MinExp == 149
\* a double holds 53 significant bits
F64Digits == 53

Pow2(e) == [sign |-> 1, exp |-> e]
Zero == [sign |-> 0, exp |-> 0]

\* the Float32 nearest to the double v, ties to even: 2^-150 is halfway
\* between 0 and 2^-149 and goes to 0, as does everything below
Fround(v) == IF v.sign # 0 /\ v.exp > F32MinExp THEN Zero ELSE v

\* zoom - delta in double precision.  A delta is held as [from, to], the
\* double from - to; every use subtracts it from a zoom equal to from, and
\* the difference is then to, exactly
Difference(zoom, delta) == delta.to

\* ------------------------------------------------------------------ vec3
Dot(a, b) == a[1] * b[1] + a[2] * b[2] + a[3] * b[3]

Cross(a, b) ==
    << a[2] * b[3] - a[3] * b[2],
       a[3] * b[1] - a[1] * b[3],
       a[1] * b[2] - a[2] * b[1] >>

\* sin and cos of q quarter turns
Sin4(q) == CASE q % 4 = 0 -> 0 [] q % 4 = 1 -> 1 [] q % 4 = 2 -> 0 [] OTHER -> -1
Cos4(q) == CASE q % 4 = 0 -> 1 [] q % 4 = 1 -> 0 [] q % 4 = 2 -> -1 [] OTHER -> 0

\* vec3.transformMat4(v, v, mat4.fromRotation(mat4.create(), q, axis)) for a
\* unit axis: the rotation matrix gl-matrix builds, applied to v.
RotateAbout(v, q, axis) ==
    LET x == axis[1]
        y == axis[2]
        z == axis[3]
        s == Sin4(q)
        c == Cos4(q)
        t == 1 - c
    IN  << (x * x * t + c) * v[1] + (x * y * t - z * s) * v[2] + (x * z * t + y * s) * v[3],
           (y * x * t + z * s) * v[1] + (y * y * t + c) * v[2] + (y * z * t - x * s) * v[3],
           (z * x * t - y * s) * v[1] + (z * y * t + x * s) * v[2] + (z * z * t + c) * v[3] >>

\* ---------------------------------------------------------------- Camera
\* new Camera(volumeBounds, volumeScale).  position[2] is -length(bounds);
\* depthSq keeps its square, which is the integer the model can hold.
NewCamera(bounds) ==
    [ forward  |-> <<0, 0, 1>>,
      up       |-> <<0, 1, 0>>,
      position |-> <<0, 0>>,
      depthSq  |-> Dot(bounds, bounds),
      zoom     |-> <<Pow2(0), Pow2(0), Pow2(0)>>,
      lightDir |-> <<0, 1, 0>> ]

\* a plausible slip, the pan setter of the earlier revision: the delta is
\* divided by the zoom
PanSetterScaled(c, delta) ==
    LET inv(z) == IF z.sign > 0 /\ z.exp \in 0..MaxZoomExp THEN 2 ^ z.exp ELSE 1
    IN  [c EXCEPT !.position = <<@[1] - delta[1] * inv(c.zoom[1]),
                                 @[2] - delta[2] * inv(c.zoom[2])>>]

\* set pan(delta)
PanSetter(c, delta) ==
    [c EXCEPT !.position = <<@[1] - delta[1], @[2] - delta[2]>>]

\* set zoom(delta): the guard compares doubles, the two stores round
ZoomSetter(c, delta) ==
    IF Difference(c.zoom[1], delta).sign > 0
    THEN [c EXCEPT !.zoom = <<Fround(Difference(c.zoom[1], delta)),
                              Fround(Difference(c.zoom[2], delta)), @[3]>>]
    ELSE c

\* a plausible slip: the pitch rotation is applied to up but not to forward
RotationSetterUpOnly(c, delta) ==
    LET right == Cross(c.forward, c.up)
        fwd1  == RotateAbout(c.forward, delta[1], c.up)
    IN  [c EXCEPT !.forward = fwd1,
                  !.up = RotateAbout(c.up, delta[2], right)]

\* set rotation(delta): yaw about up, then pitch about the right vector that
\* was computed before the yaw
RotationSetter(c, delta) ==
    LET right == Cross(c.forward, c.up)
        fwd1  == RotateAbout(c.forward, delta[1], c.up)
    IN  [c EXCEPT !.forward = RotateAbout(fwd1, delta[2], right),
                  !.up = RotateAbout(c.up, delta[2], right)]

\* set lighting(delta): about the y axis, then about the x axis
LightingSetter(c, delta) ==
    LET l1 == RotateAbout(c.lightDir, delta[1], <<0, 1, 0>>)
    IN  [c EXCEPT !.lightDir = RotateAbout(l1, delta[2], <<1, 0, 0>>)]

\* a plausible slip: only the x offset is centred
RecentreWidthOnly(c, size) ==
    [c EXCEPT !.position = <<-(size[1] \div 2), @[2]>>]

\* recentre(size)
Recentre(c, size) ==
    [c EXCEPT !.position = <<-(size[1] \div 2), -(size[2] \div 2)>>]

\* the inputs the camera actions draw from
QuarterTurns == 0..3
LightTurns == {0, 2}
PanDeltas == {-1, 0, 1}
ViewportSizes == {2, 4}
PlaceholderBounds == <<1, 1, 1>>

InRange(p) == p[1] \in -MaxPos..MaxPos /\ p[2] \in -MaxPos..MaxPos

CamInit == cam = NewCamera(PlaceholderBounds)

CamPan ==
    /\ \E dx \in PanDeltas, dy \in PanDeltas :
           /\ InRange(PanSetter(cam, <<dx, dy>>).position)
           /\ cam' = PanSetter(cam, <<dx, dy>>)
    /\ UNCHANGED notCamera

\* the differences zoom - delta the model forms for a zoom z: a delta of 0,
\* of z, of 2z; halving and doubling within the bound; and the smallest
\* positive difference a double delta can leave, z * 2^-53
ZoomResults(z) ==
    IF z.sign = 0
    THEN {Zero, Pow2(0), [sign |-> -1, exp |-> 0]}
    ELSE {z, Zero, [sign |-> -1, exp |-> z.exp]}
         \cup {Pow2(e) : e \in {z.exp - 1, z.exp + 1} \cap
                              (-MaxZoomExp..MaxZoomExp)}
         \cup {Pow2(z.exp + F64Digits)}

CamZoom ==
    /\ cam.zoom[1] = cam.zoom[2]
    /\ \E r \in ZoomResults(cam.zoom[1]) :
           cam' = ZoomSetter(cam, [from |-> cam.zoom[1], to |-> r])
    /\ UNCHANGED notCamera

CamRotate ==
    /\ \E yaw \in QuarterTurns, pitch \in QuarterTurns :
           /\ cam' = RotationSetter(cam, <<yaw, pitch>>)
    /\ UNCHANGED notCamera

CamLight ==
    /\ \E dx \in LightTurns, dy \in LightTurns :
           /\ cam' = LightingSetter(cam, <<dx, dy>>)
    /\ UNCHANGED notCamera

CamResize ==
    /\ \E w \in ViewportSizes, h \in ViewportSizes :
           /\ InRange(Recentre(cam, <<w, h>>).position)
           /\ cam' = Recentre(cam, <<w, h>>)
    /\ UNCHANGED notCamera

CamNext == CamPan \/ CamZoom \/ CamRotate \/ CamLight \/ CamResize

(***************************************************************************)
(* The Engine (src/src/engine.ts), the resources it loads                  *)
(* (src/types/volume.ts, src/src/transfer_function.ts), its views          *)
(* (src/src/renderer.ts, src/src/svr.ts) and the handlers of the global    *)
(* GUI (src/src/gui.ts).                                                   *)
(*                                                                         *)
(* JavaScript runs every handler to completion, and the continuations of   *)
(* an await that has resolved run as microtasks before the next animation  *)
(* frame or input event.  An action is therefore one stretch of code from  *)
(* an event (an input's change, a file read that completes, a frame) to    *)
(* the next await that waits for I/O: file.arrayBuffer().                  *)
(***************************************************************************)
MaxLoads == 2
MaxFiles == 2

\* the values the inputs are drawn from
Names == {"a"}
BitDepths == {8, 16, 32}
ImageShapes == {<<2, 1>>}               \* rows, columns of the first image
EntryCounts == {1, 2}                   \* the count a .tf header declares
PayloadEntries == {1}                   \* 16-byte entries after the header
ViewKinds == {"mpr", "svr"}
RenderIDs == {1, 2}

\* the .tf files: one of another format, one cut short inside the header,
\* and the files with a whole header
TfFiles ==
    {[magic |-> "RIFF", header |-> TRUE, count |-> 1, entries |-> 1],
     [magic |-> "TF01", header |-> FALSE, count |-> 0, entries |-> 0]}
    \cup [magic : {"TF01"}, header : {TRUE}, count : EntryCounts,
          entries : PayloadEntries]

Range(f) == {f[i] : i \in DOMAIN f}

\* new Volume(name)
NewVolume(name) ==
    [ type |-> "volume", name |-> name, size |-> <<1, 1, 1>>,
      bytesPerVoxel |-> 2, dataLen |-> 0, state |-> "default" ]

\* new TransferFunction(name)
NewTransferFunction(name) ==
    [ type |-> "tf", name |-> name, size |-> 1, dataLen |-> 0,
      state |-> "default" ]

\* a plausible slip: one-byte voxels pass the check as well
BitDepthSupportedAlso8(bytesPerVoxel) == bytesPerVoxel \in {1, 2}

\* Volume.load: if (this._bytesPerVoxel !== 2) throw
BitDepthSupported(bytesPerVoxel) == bytesPerVoxel = 2

\* Volume.load from series.buildSeries() on, run on the object v once every
\* file has been read: nValid images had pixel data, the first image has
\* rows x cols pixels of bits bits.  state is "partial" while the metadata
\* is the load's and the data is still the constructor's.
VolumeParse(v, nValid, bits, rows, cols) ==
    IF nValid = 0
    THEN [ok |-> FALSE, obj |-> v]
    ELSE LET meta == [v EXCEPT !.size = <<rows, cols, nValid>>,
                               !.bytesPerVoxel = bits \div 8,
                               !.state = "partial"]
         IN  IF ~BitDepthSupported(meta.bytesPerVoxel)
             THEN [ok |-> FALSE, obj |-> meta]
             ELSE [ok |-> TRUE,
                   obj |-> [meta EXCEPT !.dataLen = rows * cols * nValid * 2,
                                        !.state = "loaded"]]

\* TransferFunction.load after the file has been read.  file.magic is the
\* first four bytes, file.header tells whether the file holds the eight
\* header bytes, file.count is the entry count it declares and
\* file.entries the number of 16-byte entries that follow the header.
TransferFunctionParse(t, file) ==
    IF file.magic # "TF01" \/ ~file.header
    THEN [ok |-> FALSE, obj |-> t]
    ELSE [ok |-> TRUE,
          obj |-> [t EXCEPT !.size = file.count,
                            !.dataLen = file.entries * 16,
                            !.state = "loaded"]]

\* a plausible slip: the assignment is reached although load() threw
CommitAlways(cur, obj, ok) == obj

\* Engine.loadVolume / loadTransferFunction: this._volume = volume is
\* reached only when the awaited load() did not throw
Commit(cur, obj, ok) == IF ok THEN obj ELSE cur

\* a plausible slip: the id is recorded before the load is known to be good
PushIDAlways(ids, name, ok) ==
    IF name \notin Range(ids) THEN Append(ids, name) ELSE ids

\* if (!this._volumeIDs.includes(volume.name)) this._volumeIDs.push(...)
PushID(ids, name, ok) ==
    IF ok /\ name \notin Range(ids) THEN Append(ids, name) ELSE ids

NoTexture == [src |-> -1, size |-> 0]

\* Renderer.initResources: the volume texture, always two 8-bit channels
VolumeTexture(h, vol) ==
    [src |-> vol, size |-> h[vol].size, channels |-> 2]

\* RendererSVR.initResources: the transfer function texture
TransferFunctionTexture(h, tf) == [src |-> tf, size |-> h[tf].size]

\* the Renderer constructor followed by start(): a camera for the engine's
\* volume, the textures of the engine's volume and transfer function
StartView(kind, h, vol, tf) ==
    [ kind   |-> kind,
      start  |-> "done",
      camVol |-> vol,
      volTex |-> VolumeTexture(h, vol),
      tfTex  |-> IF kind = "svr" THEN TransferFunctionTexture(h, tf)
                 ELSE NoTexture ]

\* a plausible slip: reset() renews the camera and keeps the textures
ResetViewKeepTextures(v, h, vol, tf) == [v EXCEPT !.camVol = vol]

\* Renderer.reset()
ResetView(v, h, vol, tf) == StartView(v.kind, h, vol, tf)

\* Engine.reloadAllRenderers()
ReloadAllRenderers(rs, h, vol, tf) ==
    [id \in DOMAIN rs |-> ResetView(rs[id], h, vol, tf)]

\* the queue.writeTexture calls of one start() or reset(): initResources
\* uploads the volume, and RendererSVR.initResources the transfer function
Uploads(v) ==
    IF v.kind = "svr" THEN {"volume", "transferFunction"} ELSE {"volume"}

\* Engine.newWindow(renderID)
NewWindow(d, id) ==
    [ containers |-> d.containers \cup {id},
      windows    |-> d.windows \cup {id},
      contexts   |-> d.contexts \cup {id} ]

\* a plausible slip: the canvas context of the view is not forgotten
RemoveWindowKeepContext(d, id) ==
    IF id \in d.containers
    THEN [d EXCEPT !.containers = @ \ {id}, !.windows = @ \ {id}]
    ELSE d

\* Engine.removeWindow(id)
RemoveWindow(d, id) ==
    IF id \in d.containers
    THEN [ containers |-> d.containers \ {id},
           windows    |-> d.windows \ {id},
           contexts   |-> d.contexts \ {id} ]
    ELSE d

\* a call into the GPU: the method and what it is called on or with
Call(op, arg) == [op |-> op, arg |-> arg]

\* Renderer.executePipeline(): one render pass, drawn straight to the
\* canvas of the view
ExecutePipeline ==
    << Call("getCurrentTexture", "context"),
       Call("beginRenderPass", "surface"),
       Call("writeBuffer", "uniformBuffer"),
       Call("setPipeline", "pipeline"),
       Call("setBindGroup", "bindGroup"),
       Call("draw", "surface"),
       Call("end", "surface") >>

\* a plausible slip: the command buffer is submitted before the pass is
\* encoded and the uniforms are written
RenderSubmitFirst ==
    << Call("createCommandEncoder", "device"),
       Call("finish", "commandEncoder"),
       Call("submit", "queue") >> \o ExecutePipeline

\* Renderer.render(): the calls it makes, in order
Render ==
    << Call("createCommandEncoder", "device") >>
    \o ExecutePipeline
    \o << Call("finish", "commandEncoder"), Call("submit", "queue") >>

\* the earlier Renderer with two passes (src/frontend/src/renderer.ts):
\* executeComputePipeline() draws the projection into computeTexture
ExecuteComputePipeline ==
    << Call("beginRenderPass", "intermediate"),
       Call("setPipeline", "computePipeline"),
       Call("writeBuffer", "computeUniformBuffer"),
       Call("setBindGroup", "computeBindGroup"),
       Call("setVertexBuffer", "vertexBuffer"),
       Call("draw", "intermediate"),
       Call("end", "intermediate") >>

\* executeRenderPipeline() of the earlier Renderer draws computeTexture to
\* the canvas of the view
ExecuteRenderPipeline ==
    << Call("getCurrentTexture", "context"),
       Call("beginRenderPass", "surface"),
       Call("setPipeline", "renderPipeline"),
       Call("writeBuffer", "renderUniformBuffer"),
       Call("setBindGroup", "renderBindGroup"),
       Call("setVertexBuffer", "vertexBuffer"),
       Call("draw", "surface"),
       Call("end", "surface") >>

\* render() of the earlier Renderer
RenderTwoPass ==
    << Call("createCommandEncoder", "device") >>
    \o ExecuteComputePipeline
    \o ExecuteRenderPipeline
    \o << Call("finish", "commandEncoder"), Call("submit", "queue") >>

\* what Renderer.render() draws with: the bind group's textures, the
\* camera, and the uniforms getUniformData() reads from the engine
FrameOf(v, h, vol, tf) ==
    [ kind   |-> v.kind,
      volTex |-> v.volTex,
      tfTex  |-> v.tfTex,
      camVol |-> v.camVol,
      tfSize |-> IF v.kind = "svr" THEN h[tf].size ELSE 0,
      volRef |-> vol,
      tfRef  |-> tf,
      volState |-> h[vol].state,
      tfState |-> h[tf].state,
      calls |-> Render ]

\* the heap restricted to what the engine and the suspended loads hold
Collect(h, ls, vol, tf) ==
    [o \in {vol, tf} \cup {l.obj : l \in ls} |-> h[o]]

\* frames holds the frame drawn by the step just taken, lastLoad the load
\* completed by the step just taken; every other step clears them
NoLoad == [obj |-> -1, kind |-> "none", ok |-> TRUE, bits |-> 0, valid |-> 0,
           uploads |-> <<>>]

EngInit ==
    /\ heap = (0 :> NewVolume("")) @@ (1 :> NewTransferFunction(""))
    /\ volume = 0
    /\ transferFunction = 1
    /\ volumeIDs = <<>>
    /\ transferFunctionIDs = <<>>
    /\ loads = {}
    /\ nextObj = 2
    /\ renderers = <<>>
    /\ frames = <<>>
    /\ lastLoad = NoLoad
    /\ dom = [containers |-> {}, windows |-> {}, contexts |-> {}]
    /\ destroyed = {}

\* volumeInput.onchange up to the first await of Volume.load; without files
\* the handler returns at once
VolumeInputChange ==
    \E nFiles \in 0..MaxFiles, name \in Names :
        /\ nextObj < MaxLoads + 2
        /\ IF nFiles = 0
           THEN UNCHANGED <<heap, loads, nextObj>>
           ELSE /\ heap' = heap @@ (nextObj :> NewVolume(name))
                /\ loads' = loads \cup {[obj |-> nextObj, kind |-> "volume",
                                         remaining |-> nFiles, valid |-> 0]}
                /\ nextObj' = nextObj + 1
        /\ frames' = <<>>
        /\ lastLoad' = NoLoad
        /\ destroyed' = {}
        /\ UNCHANGED <<volume, transferFunction, volumeIDs, transferFunctionIDs,
                       renderers, dom>>
        /\ UNCHANGED notEngine

\* one file.arrayBuffer() of Volume.load resolves.  After the last file the
\* load runs to its end, then the rest of Engine.loadVolume, then the rest
\* of the handler: engine.reloadAllRenderers().
VolumeFileRead ==
    \E l \in loads, hasPixelData \in BOOLEAN :
        /\ l.kind = "volume"
        /\ LET valid == l.valid + (IF hasPixelData THEN 1 ELSE 0)
           IN  IF l.remaining > 1
               THEN /\ loads' = (loads \ {l}) \cup
                                {[l EXCEPT !.remaining = @ - 1, !.valid = valid]}
                    /\ lastLoad' = NoLoad
                    /\ UNCHANGED <<heap, volume, volumeIDs, renderers>>
               ELSE \E bits \in BitDepths, shape \in ImageShapes :
                    LET res == VolumeParse(heap[l.obj], valid, bits,
                                           shape[1], shape[2])
                        h1  == [heap EXCEPT ![l.obj] = res.obj]
                        vol == Commit(volume, l.obj, res.ok)
                    IN  /\ loads' = loads \ {l}
                        /\ volume' = vol
                        /\ volumeIDs' = PushID(volumeIDs, res.obj.name, res.ok)
                        /\ heap' = Collect(h1, loads', vol, transferFunction)
                        /\ renderers' = ReloadAllRenderers(renderers, h1, vol,
                                                           transferFunction)
                        /\ lastLoad' = [obj |-> l.obj, kind |-> "volume",
                                        ok |-> res.ok, bits |-> bits,
                                        valid |-> valid,
                                        uploads |-> [id \in DOMAIN renderers |->
                                                        Uploads(renderers'[id])]]
        /\ frames' = <<>>
        /\ destroyed' = {}
        /\ UNCHANGED <<transferFunction, transferFunctionIDs, nextObj, dom>>
        /\ UNCHANGED notEngine

\* tfInput.onchange up to the await of TransferFunction.load
TransferFunctionInputChange ==
    \E nFiles \in 0..1, name \in Names :
        /\ nextObj < MaxLoads + 2
        /\ IF nFiles = 0
           THEN UNCHANGED <<heap, loads, nextObj>>
           ELSE /\ heap' = heap @@ (nextObj :> NewTransferFunction(name))
                /\ loads' = loads \cup {[obj |-> nextObj, kind |-> "tf",
                                         remaining |-> 1, valid |-> 0]}
                /\ nextObj' = nextObj + 1
        /\ frames' = <<>>
        /\ lastLoad' = NoLoad
        /\ destroyed' = {}
        /\ UNCHANGED <<volume, transferFunction, volumeIDs, transferFunctionIDs,
                       renderers, dom>>
        /\ UNCHANGED notEngine

\* file.arrayBuffer() of TransferFunction.load resolves: the load runs to
\* its end, then the rest of Engine.loadTransferFunction, then
\* engine.reloadAllRenderers().
TransferFunctionFileRead ==
    \E l \in loads, file \in TfFiles :
        /\ l.kind = "tf"
        /\ LET res == TransferFunctionParse(heap[l.obj], file)
               h1  == [heap EXCEPT ![l.obj] = res.obj]
               tf  == Commit(transferFunction, l.obj, res.ok)
           IN  /\ loads' = loads \ {l}
               /\ transferFunction' = tf
               /\ transferFunctionIDs' =
                      PushID(transferFunctionIDs, res.obj.name, res.ok)
               /\ heap' = Collect(h1, loads', volume, tf)
               /\ renderers' = ReloadAllRenderers(renderers, h1, volume, tf)
               /\ lastLoad' = [obj |-> l.obj, kind |-> "tf", ok |-> res.ok,
                               bits |-> 0, valid |-> 0,
                               uploads |-> [id \in DOMAIN renderers |->
                                               Uploads(renderers'[id])]]
        /\ frames' = <<>>
        /\ destroyed' = {}
        /\ UNCHANGED <<volume, volumeIDs, nextObj, dom>>
        /\ UNCHANGED notEngine

\* Engine.addMPR(renderID?) / addSVR(renderID?): the view's id is the
\* caller's renderID or else Date.now(), so it may be an id already in use.
\* The Renderer constructor calls newWindow(id).
AddRenderer ==
    \E kind \in ViewKinds, id \in RenderIDs :
        /\ dom' = NewWindow(dom, id)
        /\ renderers' = (id :> StartView(kind, heap, volume, transferFunction))
                        @@ renderers
        /\ frames' = <<>>
        /\ lastLoad' = NoLoad
        /\ destroyed' = {}
        /\ UNCHANGED <<heap, volume, transferFunction, volumeIDs,
                       transferFunctionIDs, loads, nextObj>>
        /\ UNCHANGED notEngine

\* Engine.destroyRenderer(id), called by the Delete button of a view's GUI
DestroyRenderer ==
    \E id \in DOMAIN renderers :
        /\ dom' = RemoveWindow(dom, id)
        /\ renderers' = [i \in DOMAIN renderers \ {id} |-> renderers[i]]
        /\ destroyed' = {id}
        /\ frames' = <<>>
        /\ lastLoad' = NoLoad
        /\ UNCHANGED <<heap, volume, transferFunction, volumeIDs,
                       transferFunctionIDs, loads, nextObj>>
        /\ UNCHANGED notEngine

\* one animation frame: Engine.render() renders every view
Frame ==
    /\ frames' = [id \in DOMAIN renderers |->
                     FrameOf(renderers[id], heap, volume, transferFunction)]
    /\ lastLoad' = NoLoad
    /\ UNCHANGED <<heap, volume, transferFunction, volumeIDs,
                   transferFunctionIDs, loads, nextObj, renderers, dom,
                   destroyed>>
    /\ UNCHANGED notEngine

EngNext ==
    \/ VolumeInputChange
    \/ VolumeFileRead
    \/ TransferFunctionInputChange
    \/ TransferFunctionFileRead
    \/ AddRenderer
    \/ DestroyRenderer
    \/ Frame

(***************************************************************************)
(* The fragment shaders: SVR (src/frontend/shaders/shader.wgsl, latest)    *)
(* and MIP (src/unnamed/part_006, latest).  One invocation of frag_main    *)
(* marches one ray.  Lengths are exact: positions are counted in half      *)
(* voxels, a direction component is 1/inv with inv in Invs, so that every  *)
(* quotient the shader forms is a multiple of one half, and alpha and      *)
(* colour are counted in units of 1/AlphaOne.                              *)
(***************************************************************************)
\* samples along one ray
MaxSamples == 5
\* entries of the transfer function texture
MaxTfSize == 2

AlphaOne == 5 ^ MaxSamples
IntensityOne == 255 * 256

VolumeSize == <<2, 2, 1>>              \* textureDimensions(volumeTexture)
Coords == {-2, -1, 1}                  \* ray origin components, half voxels
Invs == {-1, 1, 2}                     \* 1 / dir components
Texels == {<<0, 0>>, <<0, 128>>, <<255, 255>>}  \* red, green of a sample
Shaders == {"mip", "svr"}

Min(a, b) == IF a <= b THEN a ELSE b
Max(a, b) == IF a >= b THEN a ELSE b

\* i32(x) for x = a / 2: the conversion rounds toward zero
Trunc2(a) == IF a >= 0 THEN a \div 2 ELSE -((-a) \div 2)

\* ray_box_intersection(vec3(0), size, pos, dir), near and far in halves
RayBoxIntersection(size, pos, inv) ==
    LET bot  == [i \in 1..3 |-> inv[i] * (0 - pos[i])]
        top  == [i \in 1..3 |-> inv[i] * (2 * size[i] - pos[i])]
        rmin == [i \in 1..3 |-> Min(top[i], bot[i])]
        rmax == [i \in 1..3 |-> Max(top[i], bot[i])]
    IN  [ near |-> Max(rmin[1], Max(rmin[2], rmin[3])),
          far  |-> Min(rmax[1], Min(rmax[2], rmax[3])) ]

\* pos.xyz + f32(k) * dir.xyz, in half voxels
RayPos(pos, inv, k) == [i \in 1..3 |-> pos[i] + k * (2 \div inv[i])]

\* all(coords >= 0) && all(coords <= 1) for coords = ray_pos / size
InsideVolume(size, rp) == \A i \in 1..3 : 0 <= rp[i] /\ rp[i] <= 2 * size[i]

\* intensity(sample) = (sample.x + sample.y * 255) / 256 with the channels
\* red / 255 and green / 255, in units of 1 / IntensityOne
Intensity(texel) == texel[1] + 255 * texel[2]

\* i32(val * uniforms.tfSize)
TfIndex(val, tfSize) == (val * tfSize) \div IntensityOne

\* the entries of the transfer function texture: rgb after lighting with
\* ambient 1, diffuse 0 and specular 0, and alpha 4/5, 0, 1, 4/5, ...
TfEntry(i) ==
    [ rgb |-> i + 1,
      a   |-> CASE i % 3 = 0 -> (4 * AlphaOne) \div 5
                [] i % 3 = 1 -> 0
                [] OTHER     -> AlphaOne ]

\* textureLoad(tfTexture, tfIndex, 0): out of bounds the load yields some
\* texel of the texture, or zero, or zero with alpha one
TextureLoad(tfIndex, tfSize) ==
    IF tfIndex \in 0..(tfSize - 1)
    THEN {TfEntry(tfIndex)}
    ELSE {TfEntry(i) : i \in 0..(tfSize - 1)}
         \cup {[rgb |-> 0, a |-> 0], [rgb |-> 0, a |-> AlphaOne]}

\* a plausible slip: the sample's alpha is added without the weight
CompositeUnweighted(acc, colour) ==
    [rgb |-> acc.rgb + colour.a * colour.rgb, a |-> acc.a + colour.a]

\* front-to-back composition
Composite(acc, colour) ==
    LET alpha == ((AlphaOne - acc.a) * colour.a) \div AlphaOne
    IN  [rgb |-> acc.rgb + alpha * colour.rgb, a |-> acc.a + alpha]

\* a plausible slip: the loop breaks only at full opacity
OpaqueAtOne(acc) == acc.a >= AlphaOne

\* accColour.a >= 0.95
Opaque(acc) == acc.a * 100 >= 95 * AlphaOne

NoSample == [by |-> "none", k |-> 0, pos |-> <<0, 0, 0>>, index |-> 0,
             alpha |-> 0]
Transparent == [rgb |-> 0, a |-> 0]

ShInit ==
    frag = [ pc |-> "idle", shader |-> "mip", size |-> VolumeSize,
             pos |-> <<0, 0, 0>>, inv |-> <<1, 1, 1>>, tfSize |-> 1,
             near |-> 0, far |-> 0, k |-> 0,
             accColour |-> Transparent, accFull |-> Transparent,
             maxIntensity |-> 0, sample |-> NoSample, tailAlpha |-> 0 ]

\* frag_main up to the loop: the ray of this fragment, its intersection
\* with the volume, near and far converted to i32
FragStart ==
    /\ frag.pc = "idle"
    /\ \E shader \in Shaders, pos \in Coords \X Coords \X Coords,
          inv \in Invs \X Invs \X Invs, tfSize \in 1..MaxTfSize :
          LET intersect == RayBoxIntersection(VolumeSize, pos, inv)
              near == Max(0, Trunc2(intersect.near))
              far  == Trunc2(intersect.far)
          IN  /\ far - near < MaxSamples
              /\ frag' = [frag EXCEPT !.pc = "loop", !.shader = shader,
                                      !.pos = pos, !.inv = inv,
                                      !.tfSize = tfSize, !.near = near,
                                      !.far = far, !.k = near]
    /\ UNCHANGED notShader

\* one iteration of the loop; texel is what textureSample returns at
\* coords (the sampler clamps coords to the edge of the volume)
FragSample ==
    /\ frag.pc = "loop"
    /\ frag.k <= frag.far
    /\ \E texel \in Texels :
          LET rp  == RayPos(frag.pos, frag.inv, frag.k)
              val == Intensity(texel)
          IN  IF frag.shader = "mip"
              THEN frag' = [frag EXCEPT
                       !.maxIntensity = Max(@, val),
                       !.k = @ + 1,
                       !.sample = [by |-> "loop", k |-> frag.k, pos |-> rp,
                                   index |-> 0, alpha |-> 0]]
              ELSE LET tfIndex == TfIndex(val, frag.tfSize)
                   IN  \E colour \in TextureLoad(tfIndex, frag.tfSize) :
                       LET acc == Composite(frag.accColour, colour)
                       IN  frag' = [frag EXCEPT
                               !.accColour = acc,
                               !.accFull = Composite(@, colour),
                               !.k = @ + 1,
                               !.pc = IF Opaque(acc) THEN "tail" ELSE "loop",
                               !.sample = [by |-> "loop", k |-> frag.k,
                                           pos |-> rp, index |-> tfIndex,
                                           alpha |-> colour.a]]
    /\ UNCHANGED notShader

\* after the break: a sample that only the loop without early termination
\* visits; accColour is what frag_main has returned, tailAlpha the largest
\* alpha among these samples
FragTail ==
    /\ frag.pc = "tail"
    /\ frag.k <= frag.far
    /\ \E texel \in Texels :
          LET rp      == RayPos(frag.pos, frag.inv, frag.k)
              tfIndex == TfIndex(Intensity(texel), frag.tfSize)
          IN  \E colour \in TextureLoad(tfIndex, frag.tfSize) :
                  frag' = [frag EXCEPT
                      !.accFull = Composite(@, colour),
                      !.k = @ + 1,
                      !.tailAlpha = Max(@, colour.a),
                      !.sample = [by |-> "tail", k |-> frag.k, pos |-> rp,
                                  index |-> tfIndex, alpha |-> colour.a]]
    /\ UNCHANGED notShader

\* the loop condition fails: return
FragReturn ==
    /\ frag.pc \in {"loop", "tail"}
    /\ frag.k > frag.far
    /\ frag' = [frag EXCEPT !.pc = IF frag.pc = "tail" THEN "done-early"
                                   ELSE "done"]
    /\ UNCHANGED notShader

ShNext == FragStart \/ FragSample \/ FragTail \/ FragReturn

(***************************************************************************)
(* One view: its Renderer's camera and canvas (src/src/renderer.ts), its   *)
(* Controller (src/src/controller.ts) and the DOM events that reach it.    *)
(* The Renderer constructor and every reset() build a Camera, a Controller *)
(* and the textures of the engine's volume (view.volume holds its bounds). *)
(* A Controller registers its listeners on the canvas and on the document, *)
(* and no code removes a listener.  Only the newest Controller holds the   *)
(* view's camera, so activeButton and activeKey are kept for that one; the *)
(* older ones act on cameras nothing reads.                                *)
(* A unit of mouse movement is the number of pixels that ROTATION_FACTOR   *)
(* and LIGHT_FACTOR turn into a quarter turn, and the unit of position.    *)
(***************************************************************************)
Buttons == {"left", "right"}           \* MouseEvent.button 0 and 2
Keys == {"Control", "a"}               \* KeyboardEvent.key
Moves == {<<0, 1>>}                    \* movementX, movementY
WheelDeltas == [deltaX : {0, 2}, deltaY : {0, 1}]
VolumeBounds == {<<1, 1, 1>>, <<2, 1, 1>>}   \* Volume.bounds
ViewSizes == {<<2, 2>>, <<4, 2>>}            \* canvas width and height

\* the addEventListener calls of the Controller constructor
ControllerListeners ==
    ({"canvas"} \X {"wheel", "mousedown", "mouseup", "mousemove"})
    \cup ({"document"} \X {"keydown", "keyup"})

\* whether an event of this type at this target reaches the view's
\* Controller: the listener is registered, and the canvas takes pointer
\* events while its container is in the document
Dispatched(v, target, type) ==
    /\ <<target, type>> \in v.listeners
    /\ target = "canvas" => v.stage = "active"

\* e.deltaY * ZOOM_FACTOR as the zoom it leaves: none, half and double
WheelZoom(z, deltaY) ==
    [from |-> z,
     to   |-> CASE deltaY = 0 -> z
                [] deltaY > 0 -> Pow2(z.exp + 1)
                [] OTHER      -> Pow2(z.exp - 1)]

\* Controller.mouseMove
MouseMoveHandler(v, c, m) ==
    CASE v.activeButton = "left" ->
             IF v.activeKey = "Control" THEN LightingSetter(c, m)
             ELSE RotationSetter(c, m)
      [] v.activeButton = "right" -> PanSetter(c, m)
      [] OTHER -> c

NoView ==
    [ stage |-> "none", size |-> <<0, 0>>, volume |-> <<0, 0, 0>>,
      listeners |-> {},
      activeButton |-> "null", activeKey |-> "null",
      buttons |-> {}, keys |-> {} ]

ViewInit == view = NoView

\* new RendererMPR / RendererSVR, then Engine.addRenderer: the constructor
\* builds the Camera and the Controller, resize() recentres the camera and
\* sizes the canvas, start() builds the pipelines and textures
ViewStart ==
    /\ view.stage = "none"
    /\ \E bounds \in VolumeBounds, size \in ViewSizes :
           /\ InRange(Recentre(NewCamera(bounds), size).position)
           /\ cam' = Recentre(NewCamera(bounds), size)
           /\ view' = [view EXCEPT !.stage = "active", !.size = size,
                                   !.volume = bounds,
                                   !.listeners = ControllerListeners]
    /\ UNCHANGED notView

\* Renderer.resize(size), from Engine.resize()
ViewResize(size) ==
    /\ view.stage = "active"
    /\ InRange(Recentre(cam, size).position)
    /\ cam' = Recentre(cam, size)
    /\ view' = [view EXCEPT !.size = size]
    /\ UNCHANGED notView

\* Renderer.reset(), from Engine.reloadAllRenderers() after a load: a new
\* Camera for the engine's volume and a new Controller on the same canvas
ViewReset(bounds) ==
    /\ view.stage = "active"
    /\ cam' = NewCamera(bounds)
    /\ view' = [view EXCEPT !.volume = bounds,
                            !.listeners = @ \cup ControllerListeners,
                            !.activeButton = "null", !.activeKey = "null"]
    /\ UNCHANGED notView

\* Engine.destroyRenderer(id) for this view: removeWindow takes the
\* container with the canvas out of the document
ViewDestroy ==
    /\ view.stage = "active"
    /\ view' = [view EXCEPT !.stage = "destroyed"]
    /\ UNCHANGED cam
    /\ UNCHANGED notView

\* a mousedown on the canvas: Controller.mouseDown
MouseDown(b) ==
    /\ b \notin view.buttons
    /\ Dispatched(view, "canvas", "mousedown")
    /\ view' = [view EXCEPT !.buttons = @ \cup {b}, !.activeButton = b]
    /\ UNCHANGED cam
    /\ UNCHANGED notView

\* a mouseup on the canvas: Controller.mouseUp
MouseUp(b) ==
    /\ b \in view.buttons
    /\ Dispatched(view, "canvas", "mouseup")
    /\ view' = [view EXCEPT !.buttons = @ \ {b}, !.activeButton = "null"]
    /\ UNCHANGED cam
    /\ UNCHANGED notView

\* a mousemove on the canvas: Controller.mouseMove
MouseMove(m) ==
    /\ Dispatched(view, "canvas", "mousemove")
    /\ InRange(MouseMoveHandler(view, cam, m).position)
    /\ cam' = MouseMoveHandler(view, cam, m)
    /\ UNCHANGED view
    /\ UNCHANGED notView

\* a wheel event on the canvas: Controller.mouseWheel
MouseWheel(e) ==
    /\ Dispatched(view, "canvas", "wheel")
    /\ cam.zoom[1].sign > 0
    /\ WheelZoom(cam.zoom[1], e.deltaY).to.exp \in -MaxZoomExp..MaxZoomExp
    /\ cam' = ZoomSetter(cam, WheelZoom(cam.zoom[1], e.deltaY))
    /\ UNCHANGED view
    /\ UNCHANGED notView

\* a keydown anywhere in the document: Controller.keyDown
KeyDown(k) ==
    /\ k \notin view.keys
    /\ view.stage # "none"
    /\ view' = [view EXCEPT !.keys = @ \cup {k},
                            !.activeKey = IF Dispatched(view, "document",
                                                        "keydown")
                                          THEN k ELSE @]
    /\ UNCHANGED cam
    /\ UNCHANGED notView

\* a keyup anywhere in the document: Controller.keyUp
KeyUp(k) ==
    /\ k \in view.keys
    /\ view' = [view EXCEPT !.keys = @ \ {k},
                            !.activeKey = IF Dispatched(view, "document",
                                                        "keyup")
                                          THEN "null" ELSE @]
    /\ UNCHANGED cam
    /\ UNCHANGED notView

ViewNext ==
    \/ ViewStart
    \/ \E size \in ViewSizes : ViewResize(size)
    \/ \E bounds \in VolumeBounds : ViewReset(bounds)
    \/ ViewDestroy
    \/ \E b \in Buttons : MouseDown(b)
    \/ \E b \in Buttons : MouseUp(b)
    \/ \E m \in Moves : MouseMove(m)
    \/ \E e \in WheelDeltas : MouseWheel(e)
    \/ \E k \in Keys : KeyDown(k)
    \/ \E k \in Keys : KeyUp(k)

(***************************************************************************)
(* The Engine from its construction on (src/src/engine.ts).  The           *)
(* constructor starts initWebGPU() without awaiting it and schedules the   *)
(* frame callback run; the buttons of the global GUI call addMPR() and     *)
(* addSVR() from then on.  A call into the GPU may throw: with _device     *)
(* undefined context.configure throws inside newWindow, and with a device  *)
(* a createTexture or writeTexture of start() may.  page.order is the      *)
(* iteration order of the Map _renderers, page.replaced the ids of the      *)
(* views that were overwritten in the Map and never destroyed, and         *)
(* page.invoked the views whose render() the step just taken called.       *)
(***************************************************************************)
\* how start() ends: it returns, it throws while Renderer.initResources
\* creates and fills the volume texture, or (SVR) it throws while
\* RendererSVR.initResources creates and fills the transfer function texture
StartOutcomes(kind) ==
    IF kind = "svr" THEN {"done", "threwVolume", "threwTf"}
    ELSE {"done", "threwVolume"}

\* the fields of a view after its constructor and a start() that ended as
\* outcome says; what start() did not reach is left undefined
StartedView(kind, h, vol, tf, outcome) ==
    LET v == StartView(kind, h, vol, tf)
    IN  CASE outcome = "done" -> v
          [] outcome = "threwVolume" ->
                 [v EXCEPT !.start = outcome, !.volTex = NoTexture,
                           !.tfTex = NoTexture]
          [] OTHER -> [v EXCEPT !.start = outcome, !.tfTex = NoTexture]

\* Engine.newWindow(renderID) while _device is undefined: the container and
\* the canvas are stored, then context.configure throws
NewWindowNoDevice(d, id) ==
    [d EXCEPT !.containers = @ \cup {id}, !.windows = @ \cup {id}]

\* Map.set: a new key goes last, a key in use keeps its place
MapSet(order, id) == IF id \in Range(order) THEN order ELSE Append(order, id)

\* Map.delete
MapDelete(order, id) == SelectSeq(order, LAMBDA i : i # id)

\* Renderer.render() of a view whose start() threw before
\* renderPassDescriptor was assigned: executePipeline reads
\* this.renderPassDescriptor.colorAttachments and throws
RenderThrows(v) == v.start = "threwVolume"

\* the position in the Map of the first view whose render() throws
FirstThrow(order, rs) ==
    LET throwing == {i \in 1..Len(order) : RenderThrows(rs[order[i]])}
    IN  IF throwing = {} THEN Len(order) + 1
        ELSE CHOOSE i \in throwing : \A j \in throwing : i <= j

PageInit ==
    page = [device |-> "pending", scheduled |-> TRUE, order |-> <<>>,
            replaced |-> {}, invoked |-> {}]

\* initWebGPU() resolves: the device is acquired, or requestAdapter /
\* requestDevice failed and _device stays undefined
InitWebGPU ==
    \E acquired \in BOOLEAN :
        /\ page.device = "pending"
        /\ page' = [page EXCEPT !.device = IF acquired THEN "ready" ELSE "none",
                                !.invoked = {}]
        /\ frames' = <<>>
        /\ destroyed' = {}
        /\ UNCHANGED <<renderers, dom>>
        /\ UNCHANGED notPage

\* Engine.addMPR(renderID?) / addSVR(renderID?) in full: the Renderer
\* constructor with newWindow(id), then addRenderer: _renderers.set,
\* resize(), start()
AddView ==
    \E kind \in ViewKinds, id \in RenderIDs :
    \E outcome \in StartOutcomes(kind) :
        /\ IF page.device # "ready"
           THEN /\ dom' = NewWindowNoDevice(dom, id)
                /\ page' = [page EXCEPT !.invoked = {}]
                /\ UNCHANGED renderers
           ELSE /\ dom' = NewWindow(dom, id)
                /\ renderers' =
                       (id :> StartedView(kind, heap, volume, transferFunction,
                                          outcome)) @@ renderers
                /\ page' = [page EXCEPT
                               !.order = MapSet(@, id),
                               !.replaced = IF id \in DOMAIN renderers
                                            THEN @ \cup {id} ELSE @,
                               !.invoked = {}]
        /\ frames' = <<>>
        /\ destroyed' = {}
        /\ UNCHANGED notPage

\* Engine.destroyRenderer(id), called by the Delete button of a view's GUI
DestroyView ==
    \E id \in DOMAIN renderers :
        /\ dom' = RemoveWindow(dom, id)
        /\ renderers' = [i \in DOMAIN renderers \ {id} |-> renderers[i]]
        /\ page' = [page EXCEPT !.order = MapDelete(@, id), !.invoked = {}]
        /\ destroyed' = {id}
        /\ frames' = <<>>
        /\ UNCHANGED notPage

\* the frame callback: run = () => { this.render(); requestAnimationFrame(run) }.
\* Engine.render() calls render() of the views in Map order; an exception
\* leaves both loops, so that requestAnimationFrame(run) is not reached.
Run ==
    /\ page.scheduled
    /\ LET first == FirstThrow(page.order, renderers)
           drawn == {page.order[i] : i \in 1..(first - 1)}
       IN  /\ frames' = [id \in drawn |->
                            FrameOf(renderers[id], heap, volume,
                                    transferFunction)]
           /\ page' = [page EXCEPT
                          !.scheduled = first > Len(page.order),
                          !.invoked = {page.order[i] :
                                          i \in {j \in 1..Len(page.order) :
                                                    j <= first}}]
    /\ UNCHANGED <<renderers, dom, destroyed>>
    /\ UNCHANGED notPage

PageNext ==
    \/ InitWebGPU
    \/ AddView
    \/ DestroyView
    \/ Run

(***************************************************************************)
(* The conversions of voxel and uniform data.  Volume.load stores          *)
(* Math.round(slope * sample + 2^15) into a Uint16Array; the renderer      *)
(* uploads that array as a texture of two 8-bit channels, and the shaders  *)
(* decode a texel with intensity(); Volume.bounds derives the extent of    *)
(* the volume; getUniformData packs the uniforms the shader's Uniforms     *)
(* struct reads.  Slopes and spacings are counted in halves.               *)
(***************************************************************************)
\* const shift = 2 ** 15
Shift == 32768

\* pixelData[j]: the signed and the unsigned 16-bit samples
Samples == {-32768, -1, 1, 32767, 65535} \cup {k * 4096 : k \in -7..15}

\* rescaleSlope, in halves: 1, 1.5 and 2
Slopes == {2, 3, 4}

\* Math.round(n / 2): a half is rounded up
MathRound(n) == (n + 1) \div 2

\* the conversion of a store into a Uint16Array: modulo 2^16
ToUint16(x) == x % 65536

\* volumeData[sliceOffset + j] = Math.round(rescaleSlope * pixelData[j] + shift)
StoreVoxel(sample, slope) == ToUint16(MathRound(slope * sample + 2 * Shift))

\* the values a Uint16Array element can hold, around the byte boundaries
StoredValues ==
    {0, 1, 254, 255, 256, 257, 32767, 32768, 65279, 65280, 65534, 65535}

\* queue.writeTexture of the Uint16Array into an rg8unorm texture: red is
\* the low byte and green the high byte
TexelOf(v) == <<v % 256, v \div 256>>

\* Volume.size and Volume.scale (pixel spacing and slice thickness, halves)
VolumeSizes == {<<2, 2, 1>>, <<3, 2, 2>>}
Spacings == {1, 2, 4}

\* a quotient, kept exact
Fraction(n, d) == [num |-> n, den |-> d]

\* Volume.bounds: this._size.map((s, i) => s / this._scale[i])
Bounds(size, scale) == [i \in 1..3 |-> Fraction(2 * size[i], scale[i])]

\* the earlier Volume.load: boundingBox = size * spacing
BoundingBox(size, scale) == [i \in 1..3 |-> Fraction(size[i] * scale[i], 2)]

\* the Uniforms structs of the shaders, member by member
Member(name, type) == [name |-> name, type |-> type]

Uniforms(variant) ==
    CASE variant = "svr" ->
             << Member("transform", "mat4x4"), Member("lightPos", "vec3"),
                Member("lightColour", "vec3"), Member("diffuse", "f32"),
                Member("specular", "f32"), Member("ambient", "f32"),
                Member("tfSize", "f32") >>
      [] variant = "svrBbox" ->
             << Member("transform", "mat4x4"), Member("lightPos", "vec3"),
                Member("bbox", "vec3"), Member("lightColour", "vec3"),
                Member("diffuse", "f32"), Member("specular", "f32"),
                Member("ambient", "f32"), Member("tfSize", "f32") >>
      [] variant = "svrSlab" ->
             << Member("transform", "mat4x4"), Member("lightPos", "vec3"),
                Member("bbox", "vec3"), Member("lightColour", "vec3"),
                Member("brightness", "f32"), Member("slab", "mat3x2"),
                Member("shininess", "f32"), Member("transferWidth", "f32"),
                Member("bitsPerVoxel", "f32") >>
      [] variant = "mpr" ->
             << Member("transform", "mat4x4"), Member("windowWidth", "f32"),
                Member("windowLevel", "f32") >>
      [] OTHER ->
             << Member("transform", "mat4x4"), Member("width", "f32"),
                Member("level", "f32"), Member("bitsPerVoxel", "f32") >>

Variants == {"svr", "svrBbox", "svrSlab", "mpr", "mprBits"}

\* the number of f32 components of a type
FloatsOf(type) ==
    CASE type = "f32" -> 1 [] type = "vec3" -> 3 [] type = "mat3x2" -> 6
      [] OTHER -> 16

\* SizeOf of WGSL, in bytes
SizeOf(type) == 4 * FloatsOf(type)

\* a plausible slip: a vec3 is aligned like three f32
AlignOfPacked(type) ==
    CASE type = "f32" -> 4 [] type = "vec3" -> 4 [] type = "mat3x2" -> 8
      [] OTHER -> 16

\* AlignOf of WGSL, in bytes
AlignOf(type) ==
    CASE type = "f32" -> 4 [] type = "vec3" -> 16 [] type = "mat3x2" -> 8
      [] OTHER -> 16

RoundUp(k, n) == ((n + k - 1) \div k) * k

\* the byte offset of member i of a struct
RECURSIVE OffsetOf(_, _)
OffsetOf(struct, i) ==
    IF i = 1 THEN 0
    ELSE RoundUp(AlignOf(struct[i].type),
                 OffsetOf(struct, i - 1) + SizeOf(struct[i - 1].type))

\* the byte size of a struct: its end, rounded up to its alignment
StructSize(struct) ==
    LET align == CHOOSE a \in {AlignOf(struct[i].type) : i \in DOMAIN struct} :
                     \A i \in DOMAIN struct : AlignOf(struct[i].type) <= a
    IN  RoundUp(align, OffsetOf(struct, Len(struct))
                       + SizeOf(struct[Len(struct)].type))

\* the components of a value, named after the uniform they are meant for
Components(name, n) == [k \in 1..n |-> <<name, k>>]

\* new Float32Array(n)
Float32Array(n) == [i \in 0..(n - 1) |-> <<"zero", 0>>]

\* uniformData.set(values, at)
SetAt(buf, values, at) ==
    [i \in DOMAIN buf |->
        IF i \in at..(at + Len(values) - 1) THEN values[i - at + 1] ELSE buf[i]]

\* SVRGUI.settings: [...lightColour, diffuse, specular, ambient]
Settings ==
    Components("lightColour", 3) \o Components("diffuse", 1)
    \o Components("specular", 1) \o Components("ambient", 1)

\* SettingsSVR.getSettings() as the slab revision of getUniformData slices
\* it: lightColour and brightness, the slab matrix, shininess
SettingsSlab ==
    Components("lightColour", 3) \o Components("brightness", 1)
    \o Components("slab", 6) \o Components("shininess", 1)

\* getUniformData() of each renderer
GetUniformData(variant) ==
    CASE variant = "svr" ->
             LET b1 == SetAt(Float32Array(32), Components("transform", 16), 0)
                 b2 == SetAt(b1, Components("lightPos", 3), 16)
                 b3 == SetAt(b2, Settings, 20)
             IN  [b3 EXCEPT ![26] = <<"tfSize", 1>>]
      [] variant = "svrBbox" ->
             LET b1 == SetAt(Float32Array(32), Components("transform", 16), 0)
                 b2 == SetAt(b1, Components("lightPos", 3), 16)
                 b3 == SetAt(b2, Components("bbox", 3), 20)
                 b4 == SetAt(b3, Settings, 24)
             IN  [b4 EXCEPT ![30] = <<"tfSize", 1>>]
      [] variant = "svrSlab" ->
             LET b1 == SetAt(Float32Array(40), Components("transform", 16), 0)
                 b2 == SetAt(b1, Components("lightPos", 3), 16)
                 b3 == SetAt(b2, Components("bbox", 3), 20)
                 b4 == SetAt(b3, SubSeq(SettingsSlab, 1, 4), 24)
                 b5 == SetAt(b4, SubSeq(SettingsSlab, 5, 10), 28)
             IN  [b5 EXCEPT ![34] = SettingsSlab[11],
                            ![35] = <<"transferWidth", 1>>,
                            ![36] = <<"bitsPerVoxel", 1>>]
      [] variant = "mpr" ->
             LET b1 == SetAt(Float32Array(20), Components("transform", 16), 0)
             IN  [b1 EXCEPT ![16] = <<"windowWidth", 1>>,
                            ![17] = <<"windowLevel", 1>>]
      [] OTHER ->
             LET b1 == SetAt(Float32Array(20), Components("transform", 16), 0)
             IN  [b1 EXCEPT ![16] = <<"width", 1>>,
                            ![17] = <<"level", 1>>,
                            ![18] = <<"bitsPerVoxel", 1>>]

DataInit == calc = [op |-> "none"]

\* one iteration of the rescale loop of Volume.load
Store ==
    \E sample \in Samples, slope \in Slopes :
        /\ calc' = [op |-> "store", sample |-> sample, slope |-> slope,
                    stored |-> StoreVoxel(sample, slope)]
        /\ UNCHANGED notData

\* intensity() of the shaders on the texels of two stored values
Decode ==
    \E v \in StoredValues, w \in StoredValues :
        /\ calc' = [op |-> "decode", v |-> v, w |-> w,
                    iv |-> Intensity(TexelOf(v)), iw |-> Intensity(TexelOf(w))]
        /\ UNCHANGED notData

\* Volume.bounds of a loaded volume
GetBounds ==
    \E size \in VolumeSizes, scale \in Spacings \X Spacings \X Spacings :
        /\ calc' = [op |-> "bounds", size |-> size, scale |-> scale,
                    bounds |-> Bounds(size, scale)]
        /\ UNCHANGED notData

\* getUniformData() of one renderer
Pack ==
    \E variant \in Variants :
        /\ calc' = [op |-> "pack", variant |-> variant,
                    data |-> GetUniformData(variant)]
        /\ UNCHANGED notData

DataNext ==
    \/ Store
    \/ Decode
    \/ GetBounds
    \/ Pack

Init == CamInit /\ EngInit /\ ShInit /\ ViewInit /\ PageInit /\ DataInit

SpecCamera == Init /\ [][CamNext]_vars

Spec == Init /\ [][EngNext]_vars

SpecShader == Init /\ [][ShNext]_vars

SpecView == Init /\ [][ViewNext]_vars

SpecData == Init /\ [][DataNext]_vars

SpecPage == Init /\ [][PageNext]_vars

\* requestAnimationFrame calls a scheduled callback at the next repaint
SpecPageFair == SpecPage /\ WF_vars(Run)

\* ---------------------------------------------------------------- claims

\* C1: after every call of the zoom setter, with any positive or negative
\* delta and interleaved with pan, rotate and resize calls, both zoom
\* components are strictly greater than 0.
C1_ZoomPositive == cam.zoom[1].sign > 0 /\ cam.zoom[2].sign > 0

C3_AtomicSwap ==
    /\ volume \notin {l.obj : l \in loads}
    /\ transferFunction \notin {l.obj : l \in loads}
    /\ heap[volume].state = (IF volume = 0 THEN "default" ELSE "loaded")
    /\ heap[transferFunction].state =
           (IF transferFunction = 1 THEN "default" ELSE "loaded")
    /\ \A id \in DOMAIN frames :
           /\ frames[id].volState = (IF frames[id].volRef = 0 THEN "default"
                                     ELSE "loaded")
           /\ frames[id].tfState = (IF frames[id].tfRef = 1 THEN "default"
                                    ELSE "loaded")

\* a frame drawn from a loaded volume while another load is suspended
C3_Witness ==
    /\ frames # <<>>
    /\ loads # {}
    /\ volume # 0

\* C4: every frame a view renders uses a volume texture, a transfer
\* function texture, a tfSize uniform and a camera that all derive from the
\* engine's current Volume and TransferFunction.
C4_FrameConsistent ==
    \A id \in DOMAIN frames :
        LET f == frames[id]
        IN  /\ f.volTex.src = f.volRef
            /\ f.volTex.size = heap[f.volRef].size
            /\ f.camVol = f.volRef
            /\ f.kind = "svr" =>
                   /\ f.tfTex.src = f.tfRef
                   /\ f.tfTex.size = f.tfSize

\* a volume view's frame after both resources have been replaced
C4_Witness ==
    \E id \in DOMAIN frames :
        /\ frames[id].kind = "svr"
        /\ frames[id].volRef # 0
        /\ frames[id].tfRef # 1

C7_DataLengths ==
    /\ heap[transferFunction].dataLen = heap[transferFunction].size * 16
    /\ heap[volume].dataLen =
           heap[volume].size[1] * heap[volume].size[2] * heap[volume].size[3]
           * heap[volume].bytesPerVoxel

\* C8: for every sample intensity in [0, 1] and every entry count >= 1 the
\* index the SVR stage reads the transfer function at lies in
\* [0, entryCount - 1].
C8_IndexInRange ==
    (frag.shader = "svr" /\ frag.sample.by = "loop") =>
        frag.sample.index \in 0..(frag.tfSize - 1)

\* the ray misses the volume: the interval from near to far is empty or
\* lies behind the origin
RayMisses ==
    LET intersect == RayBoxIntersection(frag.size, frag.pos, frag.inv)
    IN  intersect.near > intersect.far \/ intersect.far < 0

\* C9: every sample that updates the MIP maximum or is composited by SVR
\* lies inside the volume, and a ray that misses the volume returns with
\* maxIntensity 0 and a fully transparent accumulator.
C9_SamplesInside ==
    /\ frag.sample.by = "loop" => InsideVolume(frag.size, frag.sample.pos)
    /\ (frag.pc \in {"done", "done-early"} /\ RayMisses) =>
           /\ frag.maxIntensity = 0
           /\ frag.accColour = Transparent

\* C10 as stated: once the accumulated alpha has reached 0.95 the output is
\* the same whether the loop stops or visits the remaining samples.
C10_SameOutput ==
    frag.pc = "done-early" => frag.accColour = frag.accFull

\* C10 as amended: the two outputs are the same when the accumulated alpha
\* is exactly 1 at the break or every later sample has alpha 0; otherwise
\* the loop that goes on can only raise the alpha, from at least 0.95 to at
\* most 1.
C10_SameOutputWhenOpaque ==
    frag.pc = "done-early" =>
        /\ (frag.accColour.a = AlphaOne \/ frag.tailAlpha = 0) =>
               frag.accColour = frag.accFull
        /\ Opaque(frag.accColour)
        /\ frag.accColour.a <= frag.accFull.a
        /\ frag.accFull.a <= AlphaOne

\* the loop broke at alpha 1 and a later sample with positive alpha was
\* visited by the loop that goes on
C10_Witness ==
    /\ frag.pc = "done-early"
    /\ frag.accColour.a = AlphaOne
    /\ frag.tailAlpha > 0

\* C11: in the SVR loop, once the accumulated alpha is at least 0.95 no
\* further sample is composited into the accumulator of that ray, and no
\* sample is taken beyond the far bound: the loop ends at the step that
\* reaches 0.95 or at the far bound, whichever comes first.
C11_EarlyTermination ==
    [][/\ (frag.shader = "svr" /\ frag.accColour.a * 100 >= 95 * AlphaOne) =>
              /\ frag'.accColour = frag.accColour
              /\ frag'.pc # "loop"
       /\ frag'.sample.by = "loop" => frag'.sample.k <= frag'.far]_vars

\* the loop broke below full opacity with samples left before the far bound
C11_Witness ==
    /\ frag.pc = "tail"
    /\ frag.sample.by = "tail"
    /\ frag.sample.alpha > 0
    /\ frag.accColour.a < AlphaOne

C13_NoHandlerAfterDestroy ==
    [][view.stage = "destroyed" =>
          /\ view'.activeButton = view.activeButton
          /\ view'.activeKey = view.activeKey
          /\ cam' = cam]_vars

\* C14: a reset() uploads the volume texture only when the load that led to
\* it changed the engine's Volume reference, and the transfer function
\* texture only when it changed the TransferFunction reference: neither a
\* transfer-function-only replacement nor a failed load uploads the volume
\* again.
C14_UploadOnlyOnChange ==
    \A id \in DOMAIN lastLoad.uploads :
        /\ "volume" \in lastLoad.uploads[id] =>
               (lastLoad.kind = "volume" /\ lastLoad.ok)
        /\ "transferFunction" \in lastLoad.uploads[id] =>
               (lastLoad.kind = "tf" /\ lastLoad.ok)

C16_ResetCentred ==
    [][\A bounds \in VolumeBounds :
          ViewReset(bounds) =>
              /\ cam'.zoom = <<Pow2(0), Pow2(0), Pow2(0)>>
              /\ cam'.position = Recentre(cam', view'.size).position]_vars

\* |a|
Abs(a) == IF a >= 0 THEN a ELSE -a

\* diff = delta / zoom in magnitude, for the zoom 2^-exp
ScaledByZoom(diff, delta, zoom) ==
    IF zoom.exp >= 0
    THEN Abs(diff) = Abs(delta) * 2 ^ zoom.exp
    ELSE Abs(diff) * 2 ^ (-zoom.exp) = Abs(delta)

\* C17 as stated: pan(dx, dy) changes the x/y offset by (dx / zoom_x,
\* dy / zoom_y) in magnitude and leaves the z offset, the zoom and the
\* orientation unchanged.
C17_PanScaledByZoom ==
    [][\A dx \in PanDeltas, dy \in PanDeltas :
          (/\ cam' = PanSetter(cam, <<dx, dy>>)
           /\ cam.zoom[1].sign > 0
           /\ cam.zoom[1].exp \in -MaxZoomExp..MaxZoomExp) =>
              /\ ScaledByZoom(cam'.position[1] - cam.position[1], dx,
                              cam.zoom[1])
              /\ ScaledByZoom(cam'.position[2] - cam.position[2], dy,
                              cam.zoom[2])
              /\ cam'.depthSq = cam.depthSq
              /\ cam'.zoom = cam.zoom
              /\ cam'.forward = cam.forward
              /\ cam'.up = cam.up]_vars

\* C17 as amended: pan(dx, dy) changes the x/y offset by (dx, dy) in
\* magnitude whatever the zoom, and leaves the z offset, the zoom and the
\* orientation unchanged.
C17_PanUnscaled ==
    [][\A dx \in PanDeltas, dy \in PanDeltas :
          cam' = PanSetter(cam, <<dx, dy>>) =>
              /\ Abs(cam'.position[1] - cam.position[1]) = Abs(dx)
              /\ Abs(cam'.position[2] - cam.position[2]) = Abs(dy)
              /\ cam'.depthSq = cam.depthSq
              /\ cam'.zoom = cam.zoom
              /\ cam'.forward = cam.forward
              /\ cam'.up = cam.up]_vars

\* a camera panned off its initial offset at a zoom other than 1
C17_Witness ==
    /\ cam.position = <<1, -1>>
    /\ cam.zoom[1] = Pow2(1)
    /\ cam.zoom[2] = Pow2(1)

\* C18: under every interleaving of mousedown, mouseup and mousemove events
\* of the left and right buttons, a mouse move drags the camera (rotates it,
\* or turns the light) whenever the left button is held, pans it whenever
\* only the right button is held, and changes nothing when no button is
\* held.
C18_ButtonsHeld ==
    [][\A m \in Moves :
          MouseMove(m) =>
              /\ "left" \in view.buttons =>
                     cam' \in {RotationSetter(cam, m), LightingSetter(cam, m)}
              /\ view.buttons = {"right"} => cam' = PanSetter(cam, m)
              /\ view.buttons = {} => cam' = cam]_vars

\* C19: a left-button drag changes the light direction and leaves the
\* orientation unchanged exactly when the Control key is held down at the
\* time of the move, under every interleaving of keydown and keyup events
\* of Control and of other keys; otherwise it rotates the camera and leaves
\* the light direction unchanged.
C19_LightModifier ==
    [][\A m \in Moves :
          (MouseMove(m) /\ view.activeButton = "left"
                        /\ "left" \in view.buttons) =>
              IF "Control" \in view.keys
              THEN cam' = LightingSetter(cam, m)
              ELSE cam' = RotationSetter(cam, m)]_vars

\* the horizontal delta of a wheel event dominates
Horizontal(e) == Abs(e.deltaX) > Abs(e.deltaY)

\* C20: a wheel event whose vertical delta dominates changes only the zoom,
\* one whose horizontal delta dominates changes only the cine offset (the z
\* component of the pan); neither changes the orientation or the x/y pan.
C20_WheelAxes ==
    [][\A e \in WheelDeltas :
          MouseWheel(e) =>
              /\ cam'.forward = cam.forward
              /\ cam'.up = cam.up
              /\ cam'.position = cam.position
              /\ cam'.lightDir = cam.lightDir
              /\ Horizontal(e) => cam'.zoom = cam.zoom
              /\ ~Horizontal(e) => cam'.depthSq = cam.depthSq]_vars

\* C21: render() is invoked only on a view whose start() (or latest reset())
\* has completed successfully; a view whose start() failed is not in the
\* engine's render set.
C21_RenderOnlyStarted ==
    \A id \in page.invoked : renderers[id].start = "done"

\* the calls of one render(): every uniform write precedes the submit, a
\* pass to the intermediate raster is ended before a pass to the surface
\* begins, a pass is encoded, and the one submit is the last call
InOrder(calls) ==
    /\ \A i \in DOMAIN calls :
           calls[i].op = "writeBuffer" =>
               \E j \in DOMAIN calls : j > i /\ calls[j].op = "submit"
    /\ \A i, j \in DOMAIN calls :
           (calls[i] = Call("end", "intermediate")
            /\ calls[j] = Call("beginRenderPass", "surface")) => i < j
    /\ \A j \in DOMAIN calls :
           calls[j] = Call("beginRenderPass", "intermediate") =>
               \E i \in DOMAIN calls :
                   i > j /\ calls[i] = Call("beginRenderPass", "surface")
    /\ \E i \in DOMAIN calls : calls[i].op = "beginRenderPass"
    /\ {i \in DOMAIN calls : calls[i].op = "submit"} = {Len(calls)}

C23_StoredWithoutWrap ==
    calc.op = "store" =>
        calc.stored = MathRound(calc.slope * calc.sample) + Shift

\* C24: the decoded intensity (channel0 + channel1 * 255) / 256 is strictly
\* increasing in the stored 16-bit value and lies in [0, 1).
C24_DecodeIncreasing ==
    calc.op = "decode" =>
        /\ calc.v < calc.w => calc.iv < calc.iw
        /\ 0 <= calc.iv /\ calc.iv < IntensityOne

C26_BoundsAreCountTimesSpacing ==
    calc.op = "bounds" =>
        \A i \in 1..3 :
            calc.bounds[i].num * BoundingBox(calc.size, calc.scale)[i].den
                = BoundingBox(calc.size, calc.scale)[i].num * calc.bounds[i].den

\* C27: when two loads of the same kind overlap, the resource active after
\* both have completed is the one of the load that was started last.  The
\* objects are numbered in the order their loads were started, so the
\* active reference of either kind must never step back to an earlier one.
C27_LastStartedWins ==
    [][/\ volume' >= volume
       /\ transferFunction' >= transferFunction]_vars

\* C28: any two live views have distinct ids, the renderers, containers,
\* windows and contexts maps have the same key set, and every view that was
\* added exists until it is destroyed.
C28_SameKeysAndViewsKept ==
    /\ dom.containers = DOMAIN renderers
    /\ dom.windows = DOMAIN renderers
    /\ dom.contexts = DOMAIN renderers
    /\ page.replaced = {}

\* C29: the frame loop never stops: after every frame callback another one
\* is scheduled, so every live started view is rendered again and again,
\* also when the render() of some view throws during a frame.
C29_FrameLoopNeverStops ==
    \A id \in RenderIDs :
        []<>((id \in DOMAIN renderers /\ renderers[id].start = "done")
                 => id \in DOMAIN frames)

\* C30: a failed load leaves every open view untouched: it triggers no
\* reset() (a view that was reset has an entry in lastLoad.uploads), and
\* the views are what they were.
C30_FailedLoadResetsNothing ==
    [][(lastLoad'.kind # "none" /\ ~lastLoad'.ok) =>
           /\ DOMAIN lastLoad'.uploads = {}
           /\ renderers' = renderers]_vars

=============================================================================
